---- MODULE Spec2Model ----
(***************************************************************************)
(* A model of backend/app.py, class HumanitarianSim: the solution cache     *)
(* with its retry policy (fetch_un_solution), the allocation normalizer     *)
(* (allocate_and_predict) and the three-stage report pipeline               *)
(* (generate_final_report).                                                 *)
(*                                                                         *)
(* Text (str) is a sequence of one-character strings, so that lower(),      *)
(* replace(), strip(), the "in" substring test and float() are computed     *)
(* and not assumed.  Floats are modelled by exact rational arithmetic on    *)
(* integers; round(x, 2) is a round-half-even division.                     *)
(***************************************************************************)
EXTENDS Integers, Sequences, FiniteSets, TLC

\* ---------------------------------------------------------------- bounds
\* Number of fetch_un_solution invocations in one behaviour.
MaxInvocations == 2
\* Longest proposal list whose solutions are drawn independently.
MaxSolutions == 2
\* Longest proposal list made of copies of one solution.
MaxUniform == 31

\* ------------------------------------------------------------------ text
UpperChars == <<"A","B","C","D","E","F","G","H","I","J","K","L","M","N","O","P","Q","R","S","T","U","V","W","X","Y","Z">>
LowerChars == <<"a","b","c","d","e","f","g","h","i","j","k","l","m","n","o","p","q","r","s","t","u","v","w","x","y","z">>

\* str.lower() on one character
LowerChar(c) ==
  IF \E i \in 1..Len(UpperChars) : UpperChars[i] = c
  THEN LowerChars[CHOOSE i \in 1..Len(UpperChars) : UpperChars[i] = c]
  ELSE c

\* str.lower()
Lower(s) == [i \in 1..Len(s) |-> LowerChar(s[i])]

\* Python's "phrase in text" on str
Contains(text, phrase) ==
  \E i \in 0..(Len(text) - Len(phrase)) :
     \A j \in 1..Len(phrase) : text[i + j] = phrase[j]

\* ------------------------------------------------------------ JSON values
\* A JSON value as Python sees it after json.loads: an absent key, None, a
\* number or a str.
JMissing == [t |-> "missing", v |-> 0, s |-> <<>>]
JNull    == [t |-> "null",    v |-> 0, s |-> <<>>]
JNum(n)  == [t |-> "num",     v |-> n, s |-> <<>>]
JStr(x)  == [t |-> "str",     v |-> 0, s |-> x]

\* dict.get(key, default): the default only when the key is absent
Get(field, default) == IF field.t = "missing" THEN default ELSE field

\* Python truthiness of a value ("x or 0")
Falsy(x) ==
  \/ x.t \in {"missing", "null"}
  \/ x.t = "num" /\ x.v = 0
  \/ x.t = "str" /\ x.s = <<>>

OrZero(x) == IF Falsy(x) THEN JNum(0) ELSE x

Min(a, b) == IF b < a THEN b ELSE a
Max(a, b) == IF b > a THEN b ELSE a

\* ------------------------------------------------------------ arithmetic
\* Python floats are modelled by exact rationals [n, d] in lowest terms,
\* d > 0.
Abs(x) == IF x < 0 THEN 0 - x ELSE x

RECURSIVE Gcd(_, _)
Gcd(a, b) == IF b = 0 THEN a ELSE Gcd(b, a % b)

Rat(n, d) ==
  LET sn == IF d < 0 THEN 0 - n ELSE n
      sd == Abs(d)
      g  == Gcd(Abs(sn), sd)
  IN  [n |-> sn \div g, d |-> sd \div g]

RInt(k)    == [n |-> k, d |-> 1]
RAdd(a, b) == Rat(a.n * b.d + b.n * a.d, a.d * b.d)
RMul(a, b) == Rat(a.n * b.n, a.d * b.d)
RDiv(a, b) == Rat(a.n * b.d, a.d * b.n)
RLeq(a, b) == a.n * b.d <= b.n * a.d
RLess(a, b) == a.n * b.d < b.n * a.d
\* max(a, b) and min(a, b) of Python: the first argument unless the second
\* is strictly greater (smaller)
RMax(a, b) == IF RLess(a, b) THEN b ELSE a
RMin(a, b) == IF RLess(b, a) THEN b ELSE a

\* The integer nearest to num / den (den > 0), a tie going to the even one.
RoundHalfEven(num, den) ==
  LET q == num \div den
      r == num % den
  IN  IF 2 * r < den THEN q
      ELSE IF 2 * r > den THEN q + 1
      ELSE IF q % 2 = 0 THEN q ELSE q + 1

\* round(x, digits), as an integer count of 10^-digits
Round(x, digits) == RoundHalfEven(x.n * (10 ^ digits), x.d)

\* ----------------------------------------------------- parsing, formatting
DigitChars == <<"0","1","2","3","4","5","6","7","8","9">>
IsDigit(c) == \E i \in 1..10 : DigitChars[i] = c
DigitValue(c) == (CHOOSE i \in 1..10 : DigitChars[i] = c) - 1

\* str.replace(old, "") for a one-character old
Remove(s, old) == SelectSeq(s, LAMBDA c : c # old)

\* str.strip()
RECURSIVE LStrip(_)
LStrip(s) == IF s # <<>> /\ s[1] = " " THEN LStrip(Tail(s)) ELSE s
RECURSIVE RStrip(_)
RStrip(s) ==
  IF s # <<>> /\ s[Len(s)] = " " THEN RStrip(SubSeq(s, 1, Len(s) - 1)) ELSE s
Strip(s) == RStrip(LStrip(s))

RECURSIVE DigitsValue(_)
DigitsValue(s) ==
  IF s = <<>> THEN 0
  ELSE 10 * DigitsValue(SubSeq(s, 1, Len(s) - 1)) + DigitValue(s[Len(s)])

\* float(<str>) and int(<str>) on the texts of the model: surrounding
\* blanks, an optional sign and decimal digits; any other text raises
\* ValueError.  (Texts with a fraction or an exponent are not among the
\* model's inputs.)
ParseNumber(s) ==
  LET b == Strip(s)
      signed == b # <<>> /\ b[1] \in {"-", "+"}
      ds == IF signed THEN Tail(b) ELSE b
  IN  IF ds = <<>> \/ \E i \in 1..Len(ds) : ~IsDigit(ds[i])
      THEN [ok |-> FALSE, v |-> 0]
      ELSE [ok |-> TRUE,
            v |-> IF signed /\ b[1] = "-" THEN 0 - DigitsValue(ds) ELSE DigitsValue(ds)]

\* float(x) and int(x) of a value that is a number or a str
PyNumber(x) ==
  IF x.t = "num" THEN [ok |-> TRUE, v |-> x.v]
  ELSE IF x.t = "str" THEN ParseNumber(x.s)
  ELSE [ok |-> FALSE, v |-> 0]

\* A parser that keeps the percent sign in the text it hands to float().
parse_percent_keeps_sign(x) ==
  IF x.t = "num" THEN x.v
  ELSE IF Falsy(x) THEN 0
  ELSE LET r == ParseNumber(Strip(x.s)) IN IF r.ok THEN r.v ELSE 0

\* HumanitarianSim._parse_percent
parse_percent(x) ==
  IF x.t = "num" THEN x.v
  ELSE IF Falsy(x) THEN 0
  ELSE LET r == ParseNumber(Strip(Remove(x.s, "%")))
       IN  IF r.ok THEN r.v ELSE 0

RECURSIVE Digits(_)
Digits(k) ==
  IF k < 10 THEN <<DigitChars[k + 1]>>
  ELSE Append(Digits(k \div 10), DigitChars[(k % 10) + 1])

\* f"{round(success, 1)}%" from the rounded value in tenths
FormatPercent(tenths) ==
  (IF tenths < 0 THEN <<"-">> ELSE <<>>)
    \o Digits(Abs(tenths) \div 10) \o <<".">> \o Digits(Abs(tenths) % 10) \o <<"%">>

\* ------------------------------------------------- the reasoning service
\* Messages of the exceptions _groq_json and the code using its result raise.
MsgNoClient  == <<"G","r","o","q"," ","c","l","i","e","n","t"," ","u","n","a","v","a","i","l","a","b","l","e","."," ","S","e","t"," ","G","R","O","Q","_","A","P","I","_","K","E","Y"," ","a","n","d"," ","i","n","s","t","a","l","l"," ","g","r","o","q",".">>
Msg429       == <<"E","r","r","o","r"," ","c","o","d","e",":"," ","4","2","9">>
MsgRate      == <<"R","a","t","e"," ","l","i","m","i","t"," ","r","e","a","c","h","e","d">>
MsgTooMany   == <<"T","o","o"," ","M","a","n","y"," ","R","e","q","u","e","s","t","s">>
MsgQuota     == <<"Q","u","o","t","a"," ","e","x","c","e","e","d","e","d">>
MsgGenerate  == <<"F","a","i","l","e","d"," ","t","o"," ","g","e","n","e","r","a","t","e"," ","J","S","O","N">>
MsgConn      == <<"C","o","n","n","e","c","t","i","o","n"," ","e","r","r","o","r">>
MsgJson      == <<"E","x","p","e","c","t","i","n","g"," ","v","a","l","u","e">>
MsgAttr      == <<"'","l","i","s","t","'"," ","o","b","j","e","c","t"," ","h","a","s"," ","n","o"," ","a","t","t","r","i","b","u","t","e"," ","'","g","e","t","'">>
MsgType      == <<"'","<","'"," ","n","o","t"," ","s","u","p","p","o","r","t","e","d"," ","b","e","t","w","e","e","n"," ","i","n","s","t","a","n","c","e","s"," ","o","f"," ","'","s","t","r","'"," ","a","n","d"," ","'","i","n","t","'">>

\* What the service's transport raises when a client is configured: rate
\* limiting in its various wordings, a validation failure, a connection
\* failure; and json.loads on a body that is no JSON.
UpstreamErrors ==
  { <<"APIError", Msg429>>, <<"APIError", MsgRate>>, <<"APIError", MsgTooMany>>,
    <<"APIError", MsgQuota>>, <<"APIError", MsgGenerate>>,
    <<"APIError", MsgConn>>, <<"JSONDecodeError", MsgJson>> }

\* The exception classes above and those the code itself raises; all of
\* them derive from Exception.
ExceptionSubclasses ==
  {"APIError", "JSONDecodeError", "RuntimeError", "AttributeError",
   "TypeError", "ValueError"}

NoBody == [dict |-> FALSE, fields |-> [none |-> JMissing]]
Raise(ty, m) == [kind |-> "raise",  type |-> ty,     msg |-> m,    body |-> NoBody]
Return(b)    == [kind |-> "return", type |-> "none", msg |-> <<>>, body |-> b]

\* _groq_json: without a client it raises RuntimeError before any request;
\* with one, the request raises or json.loads returns the parsed body.
GroqJson(hasClient, bodies) ==
  IF ~hasClient THEN {Raise("RuntimeError", MsgNoClient)}
  ELSE {Raise(e[1], e[2]) : e \in UpstreamErrors} \cup {Return(b) : b \in bodies}

\* ------------------------------------------------ fetch_un_solution: data
\* One attempt more than the code makes.
max_retries_plus_one == 5 + 1

max_retries == 5
retry_delay == 2

\* The phrases whose presence in the lowered message marks a rate limit.
RateLimitPhrases ==
  { <<"4","2","9">>,
    <<"r","a","t","e">>,
    <<"t","o","o"," ","m","a","n","y"," ","r","e","q","u","e","s","t","s">>,
    <<"q","u","o","t","a">> }

TxtYemen      == <<"Y","e","m","e","n">>
TxtYemenUpper == <<"Y","E","M","E","N">>
TxtSudan      == <<"S","u","d","a","n">>
TxtHealth     == <<"H","e","a","l","t","h">>
TxtSyria      == <<"S","y","r","i","a">>
TxtWFP        == <<"W","F","P">>
TxtPct80      == <<"8","0","%">>
TxtUnknown    == <<"U","n","k","n","o","w","n">>
TxtUNResponse == <<"U","N"," ","H","u","m","a","n","i","t","a","r","i","a","n"," ","R","e","s","p","o","n","s","e">>

\* Arguments the callers pass (the route passes the request's strings on).
Countries  == {TxtYemen, TxtYemenUpper, TxtSudan}
Categories == {TxtHealth}

\* cache_key = f"{country.lower()}:{category.lower()}"
cache_key(country, category) == Lower(country) \o <<":">> \o Lower(category)

\* The three fixed degraded values.
FallbackRateLimit ==
  [analogous_country |-> JStr(<<"S","i","m","i","l","a","r"," ","C","r","i","s","i","s"," ","R","e","g","i","o","n">>),
   solution |-> JStr(<<"U","N"," ","H","u","m","a","n","i","t","a","r","i","a","n"," ","R","e","s","p","o","n","s","e"," ","P","r","o","g","r","a","m">>),
   likelihood |-> 65]
\* The rate-limit value reused for every failure.
FallbackErrorSameAsRateLimit == FallbackRateLimit

FallbackError ==
  [analogous_country |-> JStr(<<"S","i","m","i","l","a","r"," ","R","e","g","i","o","n">>),
   solution |-> JStr(<<"U","N"," ","E","m","e","r","g","e","n","c","y"," ","R","e","s","p","o","n","s","e">>),
   likelihood |-> 60]
FallbackFinal ==
  [analogous_country |-> JStr(<<"S","i","m","i","l","a","r"," ","R","e","g","i","o","n">>),
   solution |-> JStr(TxtUNResponse),
   likelihood |-> 55]

\* Bodies the service may answer the lookup prompt with: an object whose
\* fields are present, absent, null or wrongly typed, or a JSON value that
\* is no object.
UnBody(country, name, likelihood) ==
  [dict |-> TRUE,
   fields |-> [analogous_country |-> country, solution_name |-> name,
               likelihood_of_success |-> likelihood]]
NotAnObject ==
  [dict |-> FALSE,
   fields |-> [analogous_country |-> JMissing, solution_name |-> JMissing,
               likelihood_of_success |-> JMissing]]
UnBodies ==
  { UnBody(JStr(TxtSyria), JStr(TxtWFP), JNum(80)),
    UnBody(JStr(TxtSyria), JStr(TxtWFP), JNum(150)),
    UnBody(JStr(TxtSyria), JStr(TxtWFP), JNum(0 - 5)),
    UnBody(JMissing, JMissing, JMissing),
    UnBody(JNull, JStr(TxtWFP), JNull),
    UnBody(JStr(TxtSyria), JStr(TxtWFP), JStr(TxtPct80)),
    UnBody(JStr(TxtSyria), JStr(TxtWFP), JStr(<<>>)),
    NotAnObject }

\* --------------------------------------------------- allocate_and_predict
\* sum(...) of Python, the terms seq[lo..hi] added pairwise
RECURSIVE SumRange(_, _, _)
SumRange(seq, lo, hi) ==
  IF lo > hi THEN RInt(0)
  ELSE IF lo = hi THEN seq[lo]
  ELSE LET mid == (lo + hi) \div 2
       IN  RAdd(SumRange(seq, lo, mid), SumRange(seq, mid + 1, hi))

SumRat(seq) == SumRange(seq, 1, Len(seq))

\* llm_result.get("proposed_solutions", []) or []
ProposedSolutions(llm_result) ==
  IF llm_result.proposed_solutions.t = "list"
  THEN llm_result.proposed_solutions.items
  ELSE <<>>

\* float(s.get(key, 0) or 0) and int(s.get(key, 0) or 0): [ok, v], not ok
\* when the conversion raises ValueError
NumberOrZero(field) == PyNumber(OrZero(Get(field, JNum(0))))

\* An integer division where the code divides floats.
EqualShareFloorDiv(n) == RInt(100 \div n)

\* 100.0 / len(solutions)
EqualShare(n) == RDiv(RInt(100), RInt(n))

\* Weights taken as percentages of 100 whatever the allocations sum to.
NormWeightOfHundred(a, alloc_sum) == RDiv(a, RInt(100))

\* a / alloc_sum
NormWeight(a, alloc_sum) == RDiv(a, alloc_sum)

\* An explicit amount of 0 kept instead of replaced.
AllocatedAmountKeepsZero(explicit, gap, weight) ==
  IF explicit < 0 THEN RMul(gap, weight) ELSE RInt(explicit)

\* allocated_amount, replaced by gap * weight when it is <= 0
AllocatedAmount(explicit, gap, weight) ==
  IF explicit <= 0 THEN RMul(gap, weight) ELSE RInt(explicit)

\* The product left as it is.
PackageSuccessUnclamped(weighted_success, stability) ==
  RMul(weighted_success, stability)

\* max(0.0, min(100.0, weighted_success * stability))
PackageSuccess(weighted_success, stability) ==
  RMax(RInt(0), RMin(RInt(100), RMul(weighted_success, stability)))

NormReturned(sols, score) ==
  [status |-> "returned", exc |-> "none",
   proposed_solutions |-> sols, package_success_score |-> score]
NormRaised(ty) ==
  [status |-> "raised", exc |-> ty,
   proposed_solutions |-> <<>>, package_success_score |-> 0]
NormNone ==
  [status |-> "none", exc |-> "none",
   proposed_solutions |-> <<>>, package_success_score |-> 0]

\* allocate_and_predict(metrics, llm_result).  In its result
\* allocation_percentage, allocated_amount and package_success_score are
\* the rounded values counted in hundredths.
allocate_and_predict(metrics, llm_result) ==
  LET solutions == ProposedSolutions(llm_result)
      n == Len(solutions)
  IN
  IF n = 0 THEN NormReturned(<<>>, 0)
  ELSE
  LET parsed == [i \in 1..n |-> NumberOrZero(solutions[i].allocation_percentage)]
  IN
  IF \E i \in 1..n : ~parsed[i].ok THEN NormRaised("ValueError")
  ELSE
  LET raw_values == [i \in 1..n |-> RInt(parsed[i].v)]
      raw_sum == SumRat(raw_values)
      repair == RLeq(raw_sum, RInt(0))
      alloc_values == IF repair THEN [i \in 1..n |-> EqualShare(n)] ELSE raw_values
      alloc_sum == IF repair THEN RInt(100) ELSE raw_sum
      norm_weights == [i \in 1..n |-> NormWeight(alloc_values[i], alloc_sum)]
      gap == RInt(metrics.Funding_Gap_USD)
      stability == metrics.Stability_Index
      success == [i \in 1..n |-> parse_percent(Get(solutions[i].success_likelihood, JNum(0)))]
      amount == [i \in 1..n |-> NumberOrZero(solutions[i].allocated_amount)]
      impact == [i \in 1..n |-> NumberOrZero(solutions[i].projected_impact_count)]
      weighted_success ==
        SumRat([i \in 1..n |-> RMul(norm_weights[i], RInt(success[i]))])
  IN
  IF \E i \in 1..n : ~amount[i].ok \/ ~impact[i].ok THEN NormRaised("ValueError")
  ELSE
  NormReturned(
    [i \in 1..n |->
      [solution_name |-> Get(solutions[i].solution_name, JStr(TxtUnknown)),
       analogous_country |-> Get(solutions[i].analogous_country, JStr(TxtUnknown)),
       allocation_percentage |-> Round(RMul(norm_weights[i], RInt(100)), 2),
       allocated_amount |-> Round(AllocatedAmount(amount[i].v, gap, norm_weights[i]), 2),
       success_likelihood |-> JStr(FormatPercent(Round(RInt(success[i]), 1))),
       projected_impact_count |-> impact[i].v,
       rationale |-> Get(solutions[i].rationale, JStr(<<>>))]],
    Round(PackageSuccess(weighted_success, stability), 2))

\* ----------------------------------------------------------------- state
VARIABLES
  client,    \* self.client is set (GROQ_AVAILABLE and an api key)
  cache,     \* HumanitarianSim._solution_cache: cache_key -> value
  pc,        \* per invocation of fetch_un_solution: idle, attempt, done, raised
  args,      \* per invocation: <<country, category>>
  attempt,   \* per invocation: the loop variable of "for attempt in range"
  results,   \* per invocation: how each _groq_json call ended, in order
  sleeps,    \* per invocation: the arguments of its time.sleep calls
  ret,       \* per invocation: the value returned
  nMetrics,  \* allocate_and_predict: its argument metrics
  nInput,    \* allocate_and_predict: its argument llm_result
  nOut,      \* allocate_and_predict: what the call returned or raised
  rPc,       \* generate_final_report: start, stageA, stageB, stageC,
             \*   returned, raised
  rArgs,     \* generate_final_report: its arguments
  rMetrics,  \* generate_final_report: the local metrics
  rFirst,    \* generate_final_report: the local first (Stage A's answer)
  rBase,     \* generate_final_report: the local base (the normalizer's)
  rRefined,  \* generate_final_report: the local refined (Stage B's answer)
  rQuantified, \* generate_final_report: the local quantified (Stage C's)
  rLog,      \* generate_final_report: the steps taken so far, in order
  rResult,   \* generate_final_report: the report returned or the
             \*   exception raised
  mDf,       \* get_underfunding_metrics: self.df_needs
  mArgs,     \* get_underfunding_metrics: <<country, year>>
  mOut,      \* get_underfunding_metrics: what the call returned or raised
  cPc,       \* identify_humanitarian_category: idle, done, raised
  cCountry,  \* identify_humanitarian_category: its argument
  cAnswer,   \* identify_humanitarian_category: how its _groq_json call ended
  cRet       \* identify_humanitarian_category: the category returned

lookupVars == <<client, cache, pc, args, attempt, results, sleeps, ret>>
normVars == <<nMetrics, nInput, nOut>>
metricsVars == <<mDf, mArgs, mOut>>
classifyVars == <<cPc, cCountry, cAnswer, cRet>>
reportVars ==
  <<rPc, rArgs, rMetrics, rFirst, rBase, rRefined, rQuantified, rLog, rResult>>

Procs == 1..MaxInvocations

NoValue == [analogous_country |-> JMissing, solution |-> JMissing, likelihood |-> 0 - 1]
NoArgs  == <<<<>>, <<>>>>

\* ------------------------------------------- fetch_un_solution: operators
\* any(phrase in error_str for phrase in [...]) with error_str = str(e).lower()
is_rate_limit(msg) ==
  \E phrase \in RateLimitPhrases : Contains(Lower(msg), phrase)

\* A test that lets the last iteration go on as well.
HasNextAttemptOffByOne(a) == a < max_retries

\* "if attempt < max_retries - 1": another iteration follows this one
HasNextAttempt(a) == a < max_retries - 1

\* A linear instead of an exponential backoff.
wait_time_linear(a) == retry_delay * (a + 1)

\* wait_time = retry_delay * (2 ** attempt)
wait_time(a) == retry_delay * (2 ^ a)

\* A lookup that never finds its key.
CacheHitNever(key) == FALSE

\* A cache check that does not serve the degraded entries.
CacheHitGenuineOnly(key) ==
  key \in DOMAIN cache /\ cache[key].likelihood \notin {60, 65}

\* cache_key in HumanitarianSim._solution_cache
CacheHit(key) == key \in DOMAIN cache

\* A store that replaces the whole cache by the new entry.
CacheStoreAlone(c, key, value) == [k \in {key} |-> value]

\* HumanitarianSim._solution_cache[cache_key] = value
CacheStore(c, key, value) ==
  [k \in (DOMAIN c) \cup {key} |-> IF k = key THEN value ELSE c[k]]

Exc(ty, m) == [ok |-> FALSE, value |-> NoValue, type |-> ty,     msg |-> m]
Done(v)    == [ok |-> TRUE,  value |-> v,       type |-> "none", msg |-> <<>>]

\* An except clause that catches the transport's errors only.
CaughtTransportOnly(ty) == ty = "APIError"

\* "except Exception as e": the classes the clause catches
Caught(ty) == ty \in ExceptionSubclasses

\* A clamp without its lower end.
ClampLikelihoodAboveOnly(x) == Min(100, x)

\* max(0, min(100, x)) on numbers
ClampLikelihood(x) == Max(0, Min(100, x))

\* The body of the try block for one outcome of _groq_json: the value built
\* from the result, or the exception that reaches the except clause
\* (result.get on a non-object raises AttributeError, min(100, <str>)
\* raises TypeError).
TryFetch(o) ==
  IF o.kind = "raise" THEN Exc(o.type, o.msg)
  ELSE IF ~o.body.dict THEN Exc("AttributeError", MsgAttr)
  ELSE LET f  == o.body.fields
           lk == OrZero(Get(f.likelihood_of_success, JNum(0)))
       IN  IF lk.t # "num" THEN Exc("TypeError", MsgType)
           ELSE Done([analogous_country |-> Get(f.analogous_country, JStr(TxtUnknown)),
                      solution |-> Get(f.solution_name, JStr(TxtUNResponse)),
                      likelihood |-> ClampLikelihood(lk.v)])

\* How one call ended, as the except clause sees it.
ResultClass(r) ==
  IF r.ok THEN "ok" ELSE IF is_rate_limit(r.msg) THEN "rate" ELSE "other"

\* ---------------------------------------------- fetch_un_solution: actions
\* Store value under the invocation's key and return it.
StoreAndReturn(p, value) ==
  /\ cache' = CacheStore(cache, cache_key(args[p][1], args[p][2]), value)
  /\ ret' = [ret EXCEPT ![p] = value]
  /\ pc' = [pc EXCEPT ![p] = "done"]

\* Entry of fetch_un_solution(country, category): the cache check.  On a hit
\* the cached value is returned; on a miss the retry loop is entered.
Enter(p) ==
  /\ pc[p] = "idle"
  /\ \E country \in Countries, category \in Categories :
       LET key == cache_key(country, category) IN
       /\ args' = [args EXCEPT ![p] = <<country, category>>]
       /\ IF CacheHit(key)
          THEN /\ ret' = [ret EXCEPT ![p] = cache[key]]
               /\ pc' = [pc EXCEPT ![p] = "done"]
          ELSE /\ pc' = [pc EXCEPT ![p] = "attempt"]
               /\ ret' = ret
  /\ UNCHANGED <<client, cache, attempt, results, sleeps, normVars, reportVars, metricsVars, classifyVars>>

\* Sequential invocations: one begins when the ones before it returned.
Begin(p) ==
  /\ \A q \in Procs : q < p => pc[q] = "done"
  /\ Enter(p)

\* One iteration of "for attempt in range(max_retries)": the call, then the
\* success path or the except clause; past the last iteration, the code
\* after the loop.
Attempt(p) ==
  /\ pc[p] = "attempt"
  /\ IF attempt[p] < max_retries
     THEN \E o \in GroqJson(client, UnBodies) :
            LET r == TryFetch(o) IN
            /\ results' = [results EXCEPT ![p] = Append(@, ResultClass(r))]
            /\ IF r.ok
               THEN /\ StoreAndReturn(p, r.value)
                    /\ UNCHANGED <<attempt, sleeps>>
               ELSE IF ~Caught(r.type)
               THEN /\ pc' = [pc EXCEPT ![p] = "raised"]
                    /\ UNCHANGED <<cache, ret, attempt, sleeps>>
               ELSE IF is_rate_limit(r.msg)
               THEN IF HasNextAttempt(attempt[p])
                    THEN /\ sleeps' = [sleeps EXCEPT ![p] = Append(@, wait_time(attempt[p]))]
                         /\ attempt' = [attempt EXCEPT ![p] = @ + 1]
                         /\ UNCHANGED <<cache, ret, pc>>
                    ELSE /\ StoreAndReturn(p, FallbackRateLimit)
                         /\ UNCHANGED <<attempt, sleeps>>
               ELSE /\ StoreAndReturn(p, FallbackError)
                    /\ UNCHANGED <<attempt, sleeps>>
     ELSE /\ StoreAndReturn(p, FallbackFinal)
          /\ UNCHANGED <<attempt, results, sleeps>>
  /\ UNCHANGED <<client, args, normVars, reportVars, metricsVars, classifyVars>>

\* No invocation of fetch_un_solution yet, the class-level cache empty.
LookupNotStarted ==
  /\ cache = <<>>
  /\ pc = [p \in Procs |-> "idle"]
  /\ args = [p \in Procs |-> NoArgs]
  /\ attempt = [p \in Procs |-> 0]
  /\ results = [p \in Procs |-> <<>>]
  /\ sleeps = [p \in Procs |-> <<>>]
  /\ ret = [p \in Procs |-> NoValue]

LookupIdle ==
  /\ LookupNotStarted
  /\ client = TRUE

LookupStart ==
  /\ client \in BOOLEAN
  /\ LookupNotStarted

NextLookup == \E p \in Procs : Begin(p) \/ Attempt(p)

\* ------------------------------------ allocate_and_predict: its inputs
TxtPct45  == <<"4","5","%">>
TxtNum45  == <<"4","5">>
TxtBad    == <<"b","a","d">>
TxtReason == <<"p","r","o","v","e","n">>

RawSolution(alloc, amount, success, impact) ==
  [solution_name |-> JStr(TxtWFP), analogous_country |-> JStr(TxtSyria),
   allocation_percentage |-> alloc, allocated_amount |-> amount,
   success_likelihood |-> success, projected_impact_count |-> impact,
   rationale |-> JStr(TxtReason)]

\* What the service may put in the fields of a proposed solution.
AllocInputs ==
  {JMissing, JNull, JNum(0), JNum(20), JNum(60), JNum(0 - 10),
   JStr(TxtNum45), JStr(TxtPct45), JStr(TxtBad)}
AmountInputs  == {JMissing, JNum(0), JNum(500), JNum(0 - 5)}
SuccessInputs ==
  {JMissing, JNum(80), JNum(150), JNum(0 - 20), JStr(TxtPct45), JStr(TxtBad)}
ImpactInputs  == {JMissing, JNum(1000), JNum(0 - 3)}

RawSolutions ==
  {RawSolution(a, JMissing, JNum(80), JMissing) : a \in AllocInputs}
    \cup {RawSolution(JNum(60), m, JNum(80), JMissing) : m \in AmountInputs}
    \cup {RawSolution(JNum(20), JMissing, x, JMissing) : x \in SuccessInputs}
    \cup {RawSolution(JNum(20), JMissing, JNum(80), i) : i \in ImpactInputs}

UniformSolutions ==
  {RawSolution(JMissing, JMissing, JNum(80), JMissing),
   RawSolution(JNum(20), JMissing, JNum(80), JMissing),
   RawSolution(JNum(60), JNum(0), JNum(150), JNum(1000))}

RECURSIVE SeqsUpTo(_, _)
SeqsUpTo(S, n) ==
  IF n = 0 THEN {<<>>}
  ELSE LET shorter == SeqsUpTo(S, n - 1)
       IN  shorter \cup {Append(q, x) : q \in {r \in shorter : Len(r) = n - 1}, x \in S}

\* The proposal lists considered: every list of up to MaxSolutions of the
\* solutions above, and longer lists of copies of one solution.
ProposalLists ==
  SeqsUpTo(RawSolutions, MaxSolutions)
    \cup {[i \in 1..n |-> x] : n \in (MaxSolutions + 1)..MaxUniform, x \in UniformSolutions}

LlmResults ==
  {[proposed_solutions |-> [t |-> "list", items |-> l]] : l \in ProposalLists}
    \cup {[proposed_solutions |-> [t |-> k, items |-> <<>>]] : k \in {"missing", "null"}}

GapInputs == {0, 777, 1000}
StabilityInputs == {Rat(62, 100), Rat(120, 100), Rat(0 - 50, 100), RInt(3)}
MetricsInputs ==
  {[Funding_Gap_USD |-> g, Stability_Index |-> x] : g \in GapInputs, x \in StabilityInputs}

NoMetrics == [Funding_Gap_USD |-> 0, Stability_Index |-> RInt(0)]
NoLlmResult == [proposed_solutions |-> [t |-> "missing", items |-> <<>>]]

NormIdle ==
  /\ nMetrics = NoMetrics
  /\ nInput = NoLlmResult
  /\ nOut = NormNone

\* One call allocate_and_predict(metrics, llm_result).
Normalize ==
  /\ nOut.status = "none"
  /\ nOut' = allocate_and_predict(nMetrics, nInput)
  /\ UNCHANGED <<nMetrics, nInput, lookupVars, reportVars, metricsVars, classifyVars>>

NormStart ==
  /\ nMetrics \in MetricsInputs
  /\ nInput \in LlmResults
  /\ nOut = NormNone
  /\ LookupIdle

NextNorm == Normalize

\* ------------------------------------------------- generate_final_report
TxtWASH == <<"W","A","S","H">>
TxtFood == <<"F","o","o","d"," ","&"," ","L","i","v","e","l","i","h","o","o","d","s">>
TxtAtlantis == <<"A","t","l","a","n","t","i","s">>
TxtSummary == <<"p","l","a","n">>
TxtWhy == <<"s","i","m","i","l","a","r">>
TxtNum85 == <<"8","5">>

\* The needs table self.df_needs (amounts in dollars, small enough for the
\* 32-bit integers of the model).
NeedsDF ==
  << [Country |-> TxtYemen, Year |-> 2026, Crisis_Type |-> TxtFood,
      Funding_Required |-> 3700, Funding_Received |-> 820,
      People_in_Need |-> 21400, Stability_Index |-> Rat(52, 100)],
     [Country |-> TxtSudan, Year |-> 2026, Crisis_Type |-> TxtFood,
      Funding_Required |-> 1000, Funding_Received |-> 1200,
      People_in_Need |-> 30400, Stability_Index |-> Rat(54, 100)] >>

\* A gap that goes negative when more was received than required.
FundingGapSigned(funding_required, funding_received) ==
  funding_required - funding_received

\* gap = max(funding_required - funding_received, 0.0)
FundingGap(funding_required, funding_received) ==
  Max(funding_required - funding_received, 0)

\* get_underfunding_metrics(country, year) on the table df_needs:
\* [ok, metrics], not ok when it raises ValueError
get_underfunding_metrics(df_needs, country, year) ==
  LET exact == SelectSeq(df_needs, LAMBDA r : r.Country = country /\ r.Year = year)
      row == IF exact # <<>>
             THEN exact
             ELSE SelectSeq(df_needs, LAMBDA r : r.Country = country)
  IN
  IF row = <<>> THEN [ok |-> FALSE, metrics |-> <<>>]
  ELSE
  LET r == row[1]
      gap == FundingGap(r.Funding_Required, r.Funding_Received)
  IN  [ok |-> TRUE,
       metrics |->
         [Country |-> r.Country, Year |-> year, Category |-> r.Crisis_Type,
          Funding_Gap_USD |-> gap,
          Funding_Required |-> r.Funding_Required,
          Funding_Received |-> r.Funding_Received,
          Underfunding_Percentage |->
            IF r.Funding_Required > 0
            THEN RMul(Rat(gap, r.Funding_Required), RInt(100))
            ELSE RInt(0),
          People_in_Need |-> r.People_in_Need,
          Stability_Index |-> r.Stability_Index]]

\* An optional argument: absent (None) or given.
Absent == [given |-> FALSE, v |-> 0]
AbsentFloat == [given |-> FALSE, v |-> RInt(0)]
Given(x) == [given |-> TRUE, v |-> x]

\* The overrides of generate_final_report applied to the metrics.
ApplyOverrides(m, a) ==
  [m EXCEPT
     !.Category = IF ~Falsy(a.category) THEN a.category.s ELSE @,
     !.Funding_Gap_USD = IF a.funding_gap_usd.given THEN Max(0, a.funding_gap_usd.v) ELSE @,
     !.People_in_Need = IF a.people_in_need.given THEN Max(0, a.people_in_need.v) ELSE @,
     !.Stability_Index =
        IF a.stability_index.given
        THEN RMax(Rat(3, 10), RMin(Rat(12, 10), a.stability_index.v))
        ELSE @]

ReportArgs ==
  [country : {TxtYemen, TxtSudan, TxtAtlantis},
   year : {2025, 2026},
   category : {JNull, JStr(TxtWASH)},
   funding_gap_usd : {Absent, Given(500), Given(0 - 5)},
   people_in_need : {Absent},
   stability_index : {AbsentFloat, Given(RInt(5))}]

\* Answers of the service to the three prompts.
Listed(items) == [t |-> "list", items |-> items]
ProposalBody(summary, upper, lower, proposals) ==
  [dict |-> TRUE,
   fields |-> [summary |-> summary, Reasoning |-> upper, reasoning |-> lower,
               proposed_solutions |-> proposals]]
ProposalNotAnObject ==
  [dict |-> FALSE,
   fields |-> [summary |-> JMissing, Reasoning |-> JMissing, reasoning |-> JMissing,
               proposed_solutions |-> [t |-> "missing", items |-> <<>>]]]
ProposalBodies ==
  { ProposalBody(JStr(TxtSummary), JStr(TxtWhy), JMissing,
      Listed(<<RawSolution(JNum(60), JMissing, JNum(80), JNum(1000)),
               RawSolution(JNum(20), JNum(500), JStr(TxtPct45), JMissing)>>)),
    ProposalBody(JMissing, JMissing, JStr(TxtWhy),
      Listed(<<RawSolution(JMissing, JMissing, JNum(150), JMissing),
               RawSolution(JNull, JNum(0), JNum(150), JMissing),
               RawSolution(JNum(0), JMissing, JNum(150), JMissing)>>)),
    ProposalBody(JStr(TxtSummary), JMissing, JMissing, Listed(<<>>)),
    ProposalBody(JStr(TxtSummary), JStr(TxtWhy), JMissing,
      Listed(<<RawSolution(JStr(TxtPct45), JMissing, JNum(80), JMissing)>>)),
    ProposalNotAnObject }

AnswerBody(score, proposals) ==
  [dict |-> TRUE,
   fields |-> [overall_impact_score |-> score, proposed_solutions |-> proposals]]
AnswerNotAnObject ==
  [dict |-> FALSE,
   fields |-> [overall_impact_score |-> JMissing,
               proposed_solutions |-> [t |-> "missing", items |-> <<>>]]]
RefineBodies ==
  { AnswerBody(JNum(99),
      Listed(<<RawSolution(JNum(100), JNum(1), JNum(1), JNum(1))>>)),
    AnswerNotAnObject }
QuantifyBodies ==
  { AnswerBody(JNum(72), Listed(<<>>)),
    AnswerBody(JNum(150), Listed(<<>>)),
    AnswerBody(JNum(0 - 5), Listed(<<>>)),
    AnswerBody(JMissing, Listed(<<RawSolution(JNum(100), JNum(1), JNum(1), JNum(1))>>)),
    AnswerBody(JNull, Listed(<<>>)),
    AnswerBody(JStr(TxtNum85), Listed(<<>>)),
    AnswerBody(JStr(TxtBad), Listed(<<>>)),
    AnswerNotAnObject }

NoProposal == ProposalNotAnObject
NoAnswer == AnswerNotAnObject

\* The requests sent: the prompt's kind and what is embedded in it.
Request(stage, metrics, simulation, refined) ==
  [stage |-> stage, metrics |-> metrics,
   simulation |-> simulation, refined_simulation |-> refined]

\* fetch_analogous_solutions: the prompts built from the metrics
ProposePayload(metrics) == Request("A", metrics, NormNone, NoAnswer)

\* A refine request that carries Stage A's raw answer instead of the
\* normalizer's package.
RefinePayloadWithoutSimulation(metrics, base) ==
  Request("B", metrics, NormNone, NoAnswer)

\* refine_payload = {"metrics": metrics, "simulation": base, ...}
RefinePayload(metrics, base) == Request("B", metrics, base, NoAnswer)

\* quantify_payload = {"metrics": metrics, "refined_simulation": refined, ...}
QuantifyPayload(metrics, refined) == Request("C", metrics, NormNone, refined)

\* The steps of the log: what ran, the exception it raised ("none" when it
\* completed) with its message, and the request it sent, if any.
Step(name, exc, msg, request) ==
  [step |-> name, exc |-> exc, msg |-> msg, request |-> request]
Completed(name, request) == Step(name, "none", <<>>, request)
NoRequest == Request("none", <<>>, NormNone, NoAnswer)


\* An impact score that is rounded without being clamped.
ImpactScoreUnclamped(quantified, package_score) ==
  LET q == quantified.fields.overall_impact_score
      local == Rat(package_score, 100)
  IN  Round(IF q.t = "missing" THEN local
            ELSE IF PyNumber(q).ok THEN RInt(PyNumber(q).v)
            ELSE local, 2)

\* impact_score from Stage C's answer, with the fallback to the package
\* score (in hundredths) when the field is absent or float() raises
\* TypeError or ValueError; then clamped and rounded, in hundredths.
ImpactScore(quantified, package_score) ==
  LET q == quantified.fields.overall_impact_score
      local == Rat(package_score, 100)
      x == IF q.t = "missing" THEN local
           ELSE IF PyNumber(q).ok THEN RInt(PyNumber(q).v)
           ELSE local
  IN  Round(RMax(RInt(0), RMin(RInt(100), x)), 2)

NoReport == <<>>
Raised(ty) == [status |-> "raised", exc |-> ty, report |-> NoReport]
Returned(r) == [status |-> "returned", exc |-> "none", report |-> r]
NoResult == [status |-> "none", exc |-> "none", report |-> NoReport]

\* A pipeline that answers a failed step with an empty report.
StageFailureAsEmptyReport(ty) == Returned(NoReport)

\* generate_final_report has no handler around its steps: the exception
\* of a step leaves the function.
StageFailure(ty) == Raised(ty)

\* A report that takes the solution list of Stage C's answer when it has
\* one.
FinalReportMergingAnswer(metrics, first, base, quantified) ==
  [summary |-> Get(first.fields.summary, JStr(<<>>)),
   Reasoning |-> Get(first.fields.Reasoning, Get(first.fields.reasoning, JStr(<<>>))),
   proposed_solutions |->
     IF quantified.fields.proposed_solutions.items # <<>>
     THEN quantified.fields.proposed_solutions.items
     ELSE base.proposed_solutions,
   overall_impact_score |-> ImpactScore(quantified, base.package_success_score),
   country |-> metrics.Country,
   year |-> metrics.Year,
   crisis_type |-> metrics.Category,
   funding_gap_usd |-> Round(RInt(metrics.Funding_Gap_USD), 2),
   underfunding_percentage |-> Round(metrics.Underfunding_Percentage, 2),
   people_in_need |-> metrics.People_in_Need,
   stability_index |-> metrics.Stability_Index]

\* The report assembled at the end (scores and amounts in hundredths).
FinalReport(metrics, first, base, quantified) ==
  [summary |-> Get(first.fields.summary, JStr(<<>>)),
   Reasoning |-> Get(first.fields.Reasoning, Get(first.fields.reasoning, JStr(<<>>))),
   proposed_solutions |-> base.proposed_solutions,
   overall_impact_score |-> ImpactScore(quantified, base.package_success_score),
   country |-> metrics.Country,
   year |-> metrics.Year,
   crisis_type |-> metrics.Category,
   funding_gap_usd |-> Round(RInt(metrics.Funding_Gap_USD), 2),
   underfunding_percentage |-> Round(metrics.Underfunding_Percentage, 2),
   people_in_need |-> metrics.People_in_Need,
   stability_index |-> metrics.Stability_Index]

NoMetricsYet ==
  [Country |-> <<>>, Year |-> 0, Category |-> <<>>, Funding_Gap_USD |-> 0,
   Funding_Required |-> 0, Funding_Received |-> 0,
   Underfunding_Percentage |-> RInt(0), People_in_Need |-> 0,
   Stability_Index |-> RInt(0)]

ReportIdle ==
  /\ rPc = "start"
  /\ rArgs = [country |-> <<>>, year |-> 0, category |-> JNull,
              funding_gap_usd |-> Absent, people_in_need |-> Absent,
              stability_index |-> AbsentFloat]
  /\ rMetrics = NoMetricsYet
  /\ rFirst = NoProposal
  /\ rBase = NormNone
  /\ rRefined = NoAnswer
  /\ rQuantified = NoAnswer
  /\ rLog = <<>>
  /\ rResult = NoResult

\* The run ends with the exception of the step just logged.
Abort(ty) ==
  /\ rPc' = "raised"
  /\ rResult' = StageFailure(ty)

\* metrics = self.get_underfunding_metrics(country, year) and the overrides
GetMetrics ==
  /\ rPc = "start"
  /\ LET got == get_underfunding_metrics(NeedsDF, rArgs.country, rArgs.year)
     IN  IF got.ok
         THEN /\ rLog' = Append(rLog, Completed("metrics", NoRequest))
              /\ rMetrics' = ApplyOverrides(got.metrics, rArgs)
              /\ rPc' = "stageA"
              /\ UNCHANGED rResult
         ELSE /\ rLog' = Append(rLog, Step("metrics", "ValueError", <<>>, NoRequest))
              /\ Abort("ValueError")
              /\ UNCHANGED rMetrics
  /\ UNCHANGED <<rArgs, rFirst, rBase, rRefined, rQuantified, lookupVars, normVars, metricsVars, classifyVars>>

\* first = self.fetch_analogous_solutions(...) and
\* base = self.allocate_and_predict(metrics, first)
StageA ==
  /\ rPc = "stageA"
  /\ \E o \in GroqJson(client, ProposalBodies) :
       LET request == ProposePayload(rMetrics)
           base == IF o.body.dict
                   THEN allocate_and_predict(rMetrics, o.body.fields)
                   ELSE NormRaised("AttributeError")
       IN
       IF o.kind = "raise"
       THEN /\ rLog' = Append(rLog, Step("A", o.type, o.msg, request))
            /\ Abort(o.type)
            /\ UNCHANGED <<rFirst, rBase>>
       ELSE /\ rFirst' = o.body
            /\ rLog' = Append(Append(rLog, Completed("A", request)),
                              Step("normalize", base.exc, <<>>, NoRequest))
            /\ IF base.status = "returned"
               THEN /\ rBase' = base
                    /\ rPc' = "stageB"
                    /\ UNCHANGED rResult
               ELSE /\ Abort(base.exc)
                    /\ UNCHANGED rBase
  /\ UNCHANGED <<rArgs, rMetrics, rRefined, rQuantified, lookupVars, normVars, metricsVars, classifyVars>>

\* refined = self._groq_json(..., json.dumps(refine_payload))
StageB ==
  /\ rPc = "stageB"
  /\ \E o \in GroqJson(client, RefineBodies) :
       /\ rLog' = Append(rLog, Step("B", o.type, o.msg, RefinePayload(rMetrics, rBase)))
       /\ IF o.kind = "raise"
          THEN /\ Abort(o.type)
               /\ UNCHANGED rRefined
          ELSE /\ rRefined' = o.body
               /\ rPc' = "stageC"
               /\ UNCHANGED rResult
  /\ UNCHANGED <<rArgs, rMetrics, rFirst, rBase, rQuantified, lookupVars, normVars, metricsVars, classifyVars>>

\* quantified = self._groq_json(..., json.dumps(quantify_payload)), the
\* impact score and the returned report
StageC ==
  /\ rPc = "stageC"
  /\ \E o \in GroqJson(client, QuantifyBodies) :
       LET called == Append(rLog, Step("C", o.type, o.msg, QuantifyPayload(rMetrics, rRefined)))
       IN
       IF o.kind = "raise"
       THEN /\ rLog' = called
            /\ Abort(o.type)
            /\ UNCHANGED rQuantified
       ELSE IF ~o.body.dict
       THEN /\ rLog' = Append(called, Step("report", "AttributeError", <<>>, NoRequest))
            /\ Abort("AttributeError")
            /\ rQuantified' = o.body
       ELSE /\ rLog' = Append(called, Completed("report", NoRequest))
            /\ rPc' = "returned"
            /\ rQuantified' = o.body
            /\ rResult' = Returned(FinalReport(rMetrics, rFirst, rBase, o.body))
  /\ UNCHANGED <<rArgs, rMetrics, rFirst, rBase, rRefined, lookupVars, normVars, metricsVars, classifyVars>>

ReportStart ==
  /\ client \in BOOLEAN
  /\ LookupNotStarted
  /\ NormIdle
  /\ rPc = "start"
  /\ rArgs \in ReportArgs
  /\ rMetrics = NoMetricsYet
  /\ rFirst = NoProposal
  /\ rBase = NormNone
  /\ rRefined = NoAnswer
  /\ rQuantified = NoAnswer
  /\ rLog = <<>>
  /\ rResult = NoResult

NextReport == GetMetrics \/ StageA \/ StageB \/ StageC

\* ---------------------------------------- identify_humanitarian_category
TxtNutrition == <<"N","u","t","r","i","t","i","o","n">>
TxtProtection == <<"P","r","o","t","e","c","t","i","o","n">>
TxtEducation == <<"E","d","u","c","a","t","i","o","n">>
TxtWashLower == <<"w","a","s","h">>
TxtHealthUpper == <<"H","E","A","L","T","H">>
TxtNutritionPadded == <<" ","N","u","t","r","i","t","i","o","n"," ">>
TxtProtectionSentence == <<"C","h","i","l","d"," ","P","r","o","t","e","c","t","i","o","n">>
TxtEducationLower == <<"e","d","u","c","a","t","i","o","n"," ","a","c","c","e","s","s">>
TxtHealthAndNutrition == <<"n","u","t","r","i","t","i","o","n"," ","a","n","d"," ","h","e","a","l","t","h">>
TxtNutri == <<"N","u","t","r","i">>
TxtOneLetter == <<"a">>
TxtFoodSecurity == <<"F","o","o","d"," ","S","e","c","u","r","i","t","y">>
TxtLogistics == <<"L","o","g","i","s","t","i","c","s">>
TxtEmpty == <<>>
TxtBlank == <<" "," ">>
TxtShelter == <<"S","h","e","l","t","e","r">>
TxtWater == <<"W","a","t","e","r">>
TxtProtect == <<"P","R","O","T","E","C","T">>
TxtEdu == <<"e","d","u">>

valid_categories == <<TxtWASH, TxtHealth, TxtNutrition, TxtProtection, TxtEducation>>

\* What the service may answer to the category prompt.
CategoryBody(category) == [dict |-> TRUE, fields |-> [category |-> category]]
CategoryNotAnObject == [dict |-> FALSE, fields |-> [category |-> JMissing]]
CategoryTexts ==
  {TxtWASH, TxtHealth, TxtNutrition, TxtProtection, TxtEducation,
   TxtWashLower, TxtHealthUpper, TxtNutritionPadded, TxtProtectionSentence,
   TxtEducationLower, TxtHealthAndNutrition, TxtNutri, TxtOneLetter,
   TxtFoodSecurity, TxtLogistics, TxtEmpty, TxtBlank,
   TxtShelter, TxtWater, TxtProtect, TxtEdu}
CategoryBodies ==
  {CategoryBody(JStr(x)) : x \in CategoryTexts}
    \cup {CategoryBody(JMissing), CategoryBody(JNull), CategoryBody(JNum(3)),
          CategoryNotAnObject}

\* valid_cat.lower() in category.lower() or category.lower() in valid_cat.lower()
PartialMatch(valid_cat, category) ==
  \/ Contains(Lower(category), Lower(valid_cat))
  \/ Contains(Lower(valid_cat), Lower(category))

\* A matcher that leaves a text it cannot match as it is.
MatchCategoryKeepsUnknown(category) ==
  IF \E i \in 1..Len(valid_categories) : PartialMatch(valid_categories[i], category)
  THEN valid_categories[
         CHOOSE i \in 1..Len(valid_categories) :
           /\ PartialMatch(valid_categories[i], category)
           /\ \A j \in 1..(i - 1) : ~PartialMatch(valid_categories[j], category)]
  ELSE category

\* "if category not in valid_categories": the for loop with its break, and
\* its else branch
MatchCategory(category) ==
  IF \E i \in 1..Len(valid_categories) : valid_categories[i] = category
  THEN category
  ELSE IF \E i \in 1..Len(valid_categories) : PartialMatch(valid_categories[i], category)
  THEN valid_categories[
         CHOOSE i \in 1..Len(valid_categories) :
           /\ PartialMatch(valid_categories[i], category)
           /\ \A j \in 1..(i - 1) : ~PartialMatch(valid_categories[j], category)]
  ELSE TxtHealth

\* The body of the try block on an answer of _groq_json: result.get on a
\* non-object and .strip() on a non-str raise AttributeError.
TryClassify(o) ==
  IF o.kind = "raise" THEN Exc(o.type, o.msg)
  ELSE IF ~o.body.dict THEN Exc("AttributeError", MsgAttr)
  ELSE LET category == Get(o.body.fields.category, JStr(TxtHealth))
       IN  IF category.t # "str" THEN Exc("AttributeError", MsgAttr)
           ELSE Done(MatchCategory(Strip(category.s)))

ClassifyIdle ==
  /\ cPc = "idle"
  /\ cCountry = <<>>
  /\ cAnswer = Return(NoBody)
  /\ cRet = <<>>

\* One call identify_humanitarian_category(country).
Classify ==
  /\ cPc = "idle"
  /\ \E o \in GroqJson(client, CategoryBodies) :
       LET r == TryClassify(o)
       IN  /\ cAnswer' = o
           /\ IF r.ok
              THEN cPc' = "done" /\ cRet' = r.value
              ELSE IF Caught(r.type)
              THEN cPc' = "done" /\ cRet' = TxtHealth
              ELSE cPc' = "raised" /\ UNCHANGED cRet
  /\ UNCHANGED <<cCountry, lookupVars, normVars, reportVars, metricsVars>>

ClassifyStart ==
  /\ client \in BOOLEAN
  /\ cPc = "idle"
  /\ cCountry \in {TxtYemen, TxtSudan, TxtAtlantis}
  /\ cAnswer = Return(NoBody)
  /\ cRet = <<>>

NextClassify == Classify

\* ---------------------------------------------- get_underfunding_metrics
RequiredInputs == {0 - 100, 0, 1000, 3700}
ReceivedInputs == {0, 820, 1200, 3700}
YearInputs == {2025, 2026}

NeedsRecord(country, year, required, received) ==
  [Country |-> country, Year |-> year, Crisis_Type |-> TxtFood,
   Funding_Required |-> required, Funding_Received |-> received,
   People_in_Need |-> 21400, Stability_Index |-> Rat(52, 100)]

\* The needs tables considered: one record, or a record of another year or
\* of another country in front of it.
NeedsTables ==
  LET one == {NeedsRecord(TxtYemen, y, q, c) :
                y \in YearInputs, q \in RequiredInputs, c \in ReceivedInputs}
  IN  {<<r>> : r \in one}
        \cup {<<NeedsRecord(TxtYemen, 2025, 1000, 0), r>> : r \in one}
        \cup {<<NeedsRecord(TxtSudan, 2026, 1000, 1200), r>> : r \in one}

MetricsReturned(x) == [status |-> "returned", exc |-> "none", metrics |-> x]
MetricsRaised(ty) == [status |-> "raised", exc |-> ty, metrics |-> NoMetricsYet]
MetricsNone == [status |-> "none", exc |-> "none", metrics |-> NoMetricsYet]

MetricsIdle ==
  /\ mDf = <<>>
  /\ mArgs = <<<<>>, 0>>
  /\ mOut = MetricsNone

\* One call get_underfunding_metrics(country, year).
GetUnderfundingMetrics ==
  /\ mOut.status = "none"
  /\ LET got == get_underfunding_metrics(mDf, mArgs[1], mArgs[2])
     IN  mOut' = IF got.ok THEN MetricsReturned(got.metrics)
                 ELSE MetricsRaised("ValueError")
  /\ UNCHANGED <<mDf, mArgs, lookupVars, normVars, reportVars, classifyVars>>

MetricsStart ==
  /\ mDf \in NeedsTables
  /\ mArgs \in {TxtYemen, TxtAtlantis} \X YearInputs
  /\ mOut = MetricsNone

NextMetrics == GetUnderfundingMetrics

vars == <<lookupVars, normVars, reportVars, metricsVars, classifyVars>>


InitMetrics ==
  /\ MetricsStart
  /\ LookupIdle
  /\ NormIdle
  /\ ReportIdle
  /\ ClassifyIdle

\* Two concurrent invocations (threads of the server sharing the
\* class-level cache without a lock): either may begin or go on at any
\* moment; between the cache check, each call and the store that follows
\* it the other may run.
ConcurrentPair == {1, 2}
NextConcurrent == \E p \in ConcurrentPair : Enter(p) \/ Attempt(p)

InitClassify ==
  /\ ClassifyStart
  /\ LookupNotStarted
  /\ NormIdle
  /\ ReportIdle
  /\ MetricsIdle

SpecClassify == InitClassify /\ [][NextClassify]_vars

SpecMetrics == InitMetrics /\ [][NextMetrics]_vars

InitLookup == LookupStart /\ NormIdle /\ ReportIdle /\ MetricsIdle /\ ClassifyIdle

SpecLookup == InitLookup /\ [][NextLookup]_vars

SpecConcurrent == InitLookup /\ [][NextConcurrent]_vars

InitNorm == NormStart /\ ReportIdle /\ MetricsIdle /\ ClassifyIdle

SpecNorm == InitNorm /\ [][NextNorm]_vars

InitReport == ReportStart /\ MetricsIdle /\ ClassifyIdle

SpecReport == InitReport /\ [][NextReport]_vars

\* ================================================================ claims
Key(p) == cache_key(args[p][1], args[p][2])
AllRate(seq) == \A i \in 1..Len(seq) : seq[i] = "rate"
Last(seq) == seq[Len(seq)]
Cached(p) == Key(p) \in DOMAIN cache /\ cache[Key(p)] = ret[p]
\* a later invocation q repeats the arguments of a returned invocation p
Repeats(p, q) ==
  /\ p < q /\ pc[p] = "done" /\ pc[q] = "done"
  /\ args[p] = args[q]

\* C1 as stated: two sequential lookups with identical arguments, the first
\* starting on a cache miss, make exactly one upstream call in total, and
\* the second returns what the first returned.
C1_ExactlyOneCallInTotal ==
  \A p, q \in Procs :
    (Repeats(p, q) /\ results[p] # <<>>) =>
      /\ Len(results[p]) + Len(results[q]) = 1
      /\ ret[q] = ret[p]

\* C1 amended: the second of two sequential lookups with identical
\* arguments makes no upstream call and returns the value the first
\* returned; all the calls of the pair are the first lookup's, which makes
\* at most max_retries of them, each but the last one ending in a
\* rate-limit failure (so exactly one when there was no rate limiting).
C1_SecondLookupIsCacheHit ==
  \A p, q \in Procs :
    Repeats(p, q) =>
      /\ results[q] = <<>>
      /\ sleeps[q] = <<>>
      /\ ret[q] = ret[p]
      /\ Len(results[p]) <= max_retries
      /\ AllRate(SubSeq(results[p], 1, Len(results[p]) - 1))
      /\ (results[p] # <<>> /\ ~(\E i \in 1..Len(results[p]) : results[p][i] = "rate"))
            => Len(results[p]) + Len(results[q]) = 1

\* C1 witness: a lookup that returned after three upstream calls, and a
\* second lookup with the same arguments that returned the same value.
C1_Witness ==
  /\ Repeats(1, 2)
  /\ Len(results[1]) = 3
  /\ results[2] = <<>>
  /\ ret[2] = ret[1]

C3_OtherFailureReturnsAtOnce ==
  \A p \in Procs :
    \A i \in 1..Len(results[p]) :
      results[p][i] = "other" =>
        /\ i = Len(results[p])
        /\ i <= 5
        /\ pc[p] = "done"
        /\ Len(sleeps[p]) = i - 1
        /\ ret[p].likelihood = 60
        /\ ret[p] = FallbackError
        /\ ret[p] # FallbackRateLimit
        /\ Cached(p)

\* C3 witness: one invocation failed that way on its first attempt and
\* another on its fifth.
C3_Witness ==
  \E p, q \in Procs :
    /\ pc[p] = "done" /\ results[p] = <<"other">>
    /\ pc[q] = "done" /\ Len(results[q]) = 5 /\ Last(results[q]) = "other"

IsValue(v) ==
  /\ DOMAIN v = {"analogous_country", "solution", "likelihood"}
  /\ v # NoValue

\* C4: no exception leaves fetch_un_solution and it terminates: whatever
\* the calls answer, an invocation inside its loop can take its next step
\* and has an attempt left, each step either returns or moves on to the
\* next attempt, a returned invocation holds a value with the three
\* fields, and when its last call failed that value is a degraded one
\* which is in the cache under the key.
C4_NeverRaises ==
  /\ [](\A p \in Procs :
          /\ pc[p] # "raised"
          /\ pc[p] = "attempt" =>
                (attempt[p] < max_retries /\ ENABLED Attempt(p))
          /\ pc[p] = "done" =>
                /\ IsValue(ret[p])
                /\ (results[p] # <<>> /\ Last(results[p]) # "ok") =>
                      /\ ret[p] \in {FallbackRateLimit, FallbackError}
                      /\ Cached(p))
  /\ [][\A p \in Procs :
          (pc[p] = "attempt" /\ results'[p] # results[p]) =>
             \/ pc'[p] = "done"
             \/ pc'[p] = "attempt" /\ attempt'[p] = attempt[p] + 1]_vars

\* C4 witness: invocations that returned after a failed call, one after a
\* malformed response and one after rate limiting.
C4_Witness ==
  \E p, q \in Procs :
    /\ pc[p] = "done" /\ ret[p] = FallbackError /\ Cached(p)
    /\ pc[q] = "done" /\ ret[q] = FallbackRateLimit /\ Cached(q)

\* ------------------------------------------ claims on allocate_and_predict
\* f[lo] + ... + f[hi] for integers
RECURSIVE IntSum(_, _, _)
IntSum(f, lo, hi) ==
  IF lo > hi THEN 0
  ELSE IF lo = hi THEN f[lo]
  ELSE LET mid == (lo + hi) \div 2
       IN  IntSum(f, lo, mid) + IntSum(f, mid + 1, hi)

nRaw == ProposedSolutions(nInput)
nCount == Len(nRaw)
\* the raw allocations, amounts and success likelihoods as numbers
nAlloc == [i \in 1..nCount |-> NumberOrZero(nRaw[i].allocation_percentage).v]
nAmount == [i \in 1..nCount |-> NumberOrZero(nRaw[i].allocated_amount).v]
nSuccess == [i \in 1..nCount |-> parse_percent(Get(nRaw[i].success_likelihood, JNum(0)))]
nAllocSum == IntSum(nAlloc, 1, nCount)
\* the weight of solution i as a fraction num / den
nWeightNum(i) == IF nAllocSum <= 0 THEN 1 ELSE nAlloc[i]
nWeightDen == IF nAllocSum <= 0 THEN nCount ELSE nAllocSum
nReturned == nOut.status = "returned" /\ nCount >= 1
\* sums of the output, in hundredths
nPctSum ==
  IntSum([i \in 1..nCount |-> nOut.proposed_solutions[i].allocation_percentage], 1, nCount)
nAmountSum ==
  IntSum([i \in 1..nCount |-> nOut.proposed_solutions[i].allocated_amount], 1, nCount)

\* C7 as stated: for every non-empty raw solution set the output
\* allocationPct values sum to 100 within 0.1.
C7_PctSumWithinTenth ==
  nReturned => Abs(nPctSum - 10000) <= 10

\* C7 amended: for a non-empty raw solution set of n solutions the output
\* allocationPct values sum to 100 within 0.005 * n, the rounding of n
\* values to two decimals, and so within 0.1 when n < 20.
C7_PctSumWithinRounding ==
  nReturned =>
    /\ 2 * Abs(nPctSum - 10000) <= nCount
    /\ nCount < 20 => Abs(nPctSum - 10000) < 10

\* C7 witness: two raw allocations, 60 and 20, that do not sum to 100 come
\* out as 75.00 and 25.00.
C7_Witness ==
  /\ nReturned /\ nCount = 2
  /\ nAlloc[1] = 60 /\ nAlloc[2] = 20
  /\ nOut.proposed_solutions[1].allocation_percentage = 7500
  /\ nOut.proposed_solutions[2].allocation_percentage = 2500

\* C8: when the parsed allocations of n >= 1 solutions sum to <= 0 (all 0
\* or missing in particular), every output allocationPct is
\* round(100 / n, 2).
C8_EqualWeights ==
  (nReturned /\ nAllocSum <= 0) =>
    \A i \in 1..nCount :
      nOut.proposed_solutions[i].allocation_percentage = RoundHalfEven(100 * 100, nCount)

\* C8 witness: three solutions without an allocation, each given 33.33.
C8_Witness ==
  /\ nReturned /\ nCount = 3
  /\ \A i \in 1..3 : nRaw[i].allocation_percentage.t = "missing"
  /\ \A i \in 1..3 : nOut.proposed_solutions[i].allocation_percentage = 3333

\* C9: when no solution supplies a positive allocatedAmount, every output
\* allocatedAmount is round(fundingGap * weight, 2) and the amounts sum to
\* fundingGap within half a cent per solution.
C9_AmountsSumToGap ==
  (nReturned /\ \A i \in 1..nCount : nAmount[i] <= 0) =>
    /\ \A i \in 1..nCount :
         nOut.proposed_solutions[i].allocated_amount =
           RoundHalfEven(nMetrics.Funding_Gap_USD * 100 * nWeightNum(i), nWeightDen)
    /\ 2 * Abs(nAmountSum - nMetrics.Funding_Gap_USD * 100) <= nCount

\* C9 witness: a gap of 777 split over three equal solutions, 259.00 each.
C9_Witness ==
  /\ nReturned /\ nCount = 3
  /\ nMetrics.Funding_Gap_USD = 777
  /\ \A i \in 1..3 : nAmount[i] <= 0
  /\ \A i \in 1..3 : nOut.proposed_solutions[i].allocated_amount = 25900

\* sum(weight * success) * stabilityIndex as a fraction num / den, den > 0
nProductNum ==
  nMetrics.Stability_Index.n
    * IntSum([i \in 1..nCount |-> nWeightNum(i) * nSuccess[i]], 1, nCount)
nProductDen == nMetrics.Stability_Index.d * nWeightDen

\* C10: packageSuccessScore is within [0, 100]: 0 for the empty set and
\* otherwise sum(weight * success) * stabilityIndex clamped to [0, 100]
\* and rounded to two decimals.
C10_ScoreClamped ==
  nOut.status = "returned" =>
    /\ nOut.package_success_score >= 0
    /\ nOut.package_success_score <= 10000
    /\ nCount = 0 => nOut.package_success_score = 0
    /\ nCount >= 1 =>
         nOut.package_success_score =
           IF nProductNum < 0 THEN 0
           ELSE IF nProductNum > 100 * nProductDen THEN 10000
           ELSE RoundHalfEven(100 * nProductNum, nProductDen)

\* C10 witness: success likelihoods of 150 and a stability index of 3,
\* whose product is cut down to 100.
C10_Witness ==
  /\ nReturned
  /\ nMetrics.Stability_Index = RInt(3)
  /\ \E i \in 1..nCount : nSuccess[i] = 150
  /\ nOut.package_success_score = 10000

\* ---- generate_final_report
StepNames == [i \in 1..Len(rLog) |-> rLog[i].step]
Calls == SelectSeq(rLog, LAMBDA e : e.step \in {"A", "B", "C"})
IsPrefix(a, b) == Len(a) <= Len(b) /\ \A i \in 1..Len(a) : a[i] = b[i]
Failed(e) == e.exc # "none"
FullRun == <<"metrics", "A", "normalize", "B", "C", "report">>

\* C5: a run that returns a report made exactly three calls, Stage A, Stage B
\* and Stage C in that order, with the normalizer run between Stage A's
\* answer and Stage B's call; Stage B's request carries the normalizer's
\* output and Stage C's request carries Stage B's answer.  At every moment
\* the steps taken are an initial part of that order, so no stage starts
\* before the previous one has completed.
C5_ThreeStagesInOrder ==
  /\ IsPrefix(StepNames, FullRun)
  /\ \A i \in 1..Len(rLog) : i < Len(rLog) => ~Failed(rLog[i])
  /\ rPc = "returned" =>
       /\ StepNames = FullRun
       /\ \A i \in 1..Len(rLog) : ~Failed(rLog[i])
       /\ Len(Calls) = 3
       /\ Calls[1].request.stage = "A"
       /\ Calls[2].request.stage = "B"
       /\ Calls[3].request.stage = "C"
       /\ rBase = allocate_and_predict(rMetrics, rFirst.fields)
       /\ rBase.status = "returned"
       /\ Calls[2].request.simulation = rBase
       /\ Calls[2].request.metrics = rMetrics
       /\ Calls[3].request.refined_simulation = rRefined
       /\ Calls[3].request.metrics = rMetrics
       /\ rResult.status = "returned"

C5_Witness ==
  /\ rPc = "returned"
  /\ Len(Calls) = 3
  /\ Len(rBase.proposed_solutions) = 2
  /\ rRefined.dict
  /\ Calls[2].request.simulation.proposed_solutions[1].allocation_percentage = 7500

\* C6: when the metrics lookup or a stage fails, the run ends with that
\* failure: the failed step is the last one taken, nothing runs after it, no
\* step is taken twice, and the function raises that exception instead of
\* returning a report.
C6_FailureAbortsRun ==
  /\ \A i \in 1..Len(rLog) :
       Failed(rLog[i]) =>
         /\ i = Len(rLog)
         /\ rPc = "raised"
         /\ rResult.status = "raised"
         /\ rResult.exc = rLog[i].exc
         /\ rResult.report = NoReport
  /\ \A i, j \in 1..Len(rLog) : rLog[i].step = rLog[j].step => i = j
  /\ rPc = "raised" =>
       /\ Failed(Last(rLog))
       /\ ~ENABLED NextReport
  /\ rResult.status = "returned" => \A i \in 1..Len(rLog) : ~Failed(rLog[i])

C6_Witness ==
  /\ rPc = "raised"
  /\ StepNames = <<"metrics", "A", "normalize", "B">>
  /\ Last(rLog).exc = "APIError"
  /\ is_rate_limit(Last(rLog).msg)
  /\ rResult.status = "raised"


\* Stage C's overall_impact_score as a whole number, when it has one
ScoreField == rQuantified.fields.overall_impact_score
ScoreIsNumber ==
  \/ ScoreField.t = "num"
  \/ ScoreField.t = "str" /\ ParseNumber(ScoreField.s).ok
ScoreNumber ==
  IF ScoreField.t = "num" THEN ScoreField.v ELSE ParseNumber(ScoreField.s).v
Clamp100(hundredths) == Max(0, Min(10000, hundredths))

\* C11: in every report returned, overallImpactScore is within [0, 100]: it
\* is Stage C's overall_impact_score clamped when that field is a number
\* (or text that converts to one), and the normalizer's
\* package_success_score clamped when the field is absent, null or does
\* not convert.
C11_ImpactScoreClampedOrLocal ==
  rPc = "returned" =>
    /\ rResult.report.overall_impact_score >= 0
    /\ rResult.report.overall_impact_score <= 10000
    /\ ScoreIsNumber =>
         rResult.report.overall_impact_score = Clamp100(100 * ScoreNumber)
    /\ ~ScoreIsNumber =>
         rResult.report.overall_impact_score = Clamp100(rBase.package_success_score)

\* C11 witness: Stage C answered with no usable score and the report
\* carries the package score of the local step, neither 0 nor 100.
C11_Witness ==
  /\ rPc = "returned"
  /\ ScoreField \in {JNull, JMissing, JStr(TxtBad)}
  /\ rBase.package_success_score \notin {0, 10000}
  /\ rResult.report.overall_impact_score = rBase.package_success_score

\* Stage C answered 150, reported as 100.00.
C11_ClampReached ==
  /\ rPc = "returned"
  /\ ScoreField = JNum(150)
  /\ rResult.report.overall_impact_score = 10000


\* ---- get_underfunding_metrics
\* the record the call reads: the first of the country and year, else the
\* first of the country
mMatches(withYear) ==
  {i \in 1..Len(mDf) :
     /\ mDf[i].Country = mArgs[1]
     /\ withYear => mDf[i].Year = mArgs[2]}
mFirst(S) == CHOOSE i \in S : \A j \in S : i <= j
mRecord ==
  IF mMatches(TRUE) # {} THEN mDf[mFirst(mMatches(TRUE))]
  ELSE mDf[mFirst(mMatches(FALSE))]
mRequired == mRecord.Funding_Required
mReceived == mRecord.Funding_Received
mGap == mOut.metrics.Funding_Gap_USD
mPct == mOut.metrics.Underfunding_Percentage

\* C12: for every needs record getMetrics returns fundingGap =
\* max(required - received, 0), never negative, and underfundingPct =
\* fundingGap / required * 100 when required > 0 and exactly 0 when
\* required <= 0; a required of 0 raises no division error.
C12_GapAndPct ==
  /\ (mOut.status # "none" /\ mMatches(FALSE) # {}) => mOut.status = "returned"
  /\ mOut.status = "returned" =>
       /\ mGap >= 0
       /\ mGap = (IF mRequired >= mReceived THEN mRequired - mReceived ELSE 0)
       /\ mRequired > 0 => mPct.n * mRequired = 100 * mGap * mPct.d
       /\ mRequired <= 0 => mPct.n = 0

\* C12 witness: required 3700 and received 820 (the claim's example in
\* millions) give a gap of 2880.
C12_Witness ==
  /\ mOut.status = "returned"
  /\ mRequired = 3700 /\ mReceived = 820
  /\ mGap = 2880

\* a required of 0 answered with 0 percent
C12_ZeroRequiredReached ==
  /\ mOut.status = "returned"
  /\ mRequired = 0 /\ mReceived = 1200
  /\ mGap = 0 /\ mPct.n = 0


\* ---- identify_humanitarian_category
ValidSet == {TxtWASH, TxtHealth, TxtNutrition, TxtProtection, TxtEducation}
cFailed == cAnswer.kind = "raise"
cText == cAnswer.body.fields.category
cHasText == ~cFailed /\ cAnswer.body.dict /\ cText.t = "str"
cMatches(v) ==
  \/ Contains(Lower(Strip(cText.s)), Lower(v))
  \/ Contains(Lower(v), Lower(Strip(cText.s)))

\* C13: for every region and every upstream outcome classifyCategory
\* returns exactly one of WASH, Health, Nutrition, Protection, Education
\* and never raises.
C13_AlwaysAValidCategory ==
  /\ cPc # "raised"
  /\ cPc = "idle" => ENABLED Classify
  /\ cPc = "done" => cRet \in ValidSet

\* C13 witness: the call failed upstream and Health was returned.
C13_Witness ==
  /\ cPc = "done"
  /\ cFailed /\ cAnswer.type = "APIError"
  /\ cRet = TxtHealth

\* C14 as stated: one of the five names is returned unchanged, another
\* text is replaced by a category it matches by case-insensitive substring,
\* and a text that names none of them (an empty or missing text included)
\* or a failed call gives Health.
C14_MatchOrHealth ==
  cPc = "done" =>
    /\ (cHasText /\ cText.s \in ValidSet) => cRet = cText.s
    /\ (cHasText /\ cText.s \notin ValidSet /\ cRet # TxtHealth) => cMatches(cRet)
    /\ (cHasText /\ Strip(cText.s) = <<>>) => cRet = TxtHealth
    /\ (cHasText /\ \A v \in ValidSet : ~cMatches(v)) => cRet = TxtHealth
    /\ (~cFailed /\ cAnswer.body.dict /\ cText.t = "missing") => cRet = TxtHealth
    /\ cFailed => cRet = TxtHealth


\* ---- concurrent invocations of fetch_un_solution
\* p and q both missed the cache for the same key and both returned
BothMissed(p, q) ==
  /\ p # q /\ pc[p] = "done" /\ pc[q] = "done"
  /\ Key(p) = Key(q)
  /\ results[p] # <<>> /\ results[q] # <<>>
\* invocation p stores in this step
Stores(p) == pc[p] = "attempt" /\ pc'[p] = "done"

\* C15 as stated: concurrent first-time lookups of one key write and return
\* equivalent values (same region, solution and likelihood), the entry left
\* in the cache is one of them, complete, and other keys are unaffected.
C15_RaceBenign ==
  \A p, q \in Procs :
    BothMissed(p, q) =>
      /\ ret[p] = ret[q]
      /\ cache[Key(p)] = ret[p]

\* C15 amended: concurrent first-time lookups of one key each return the
\* value they stored themselves, which need not be the other's; the entry
\* in the cache is the complete value of whichever stored last, and a
\* store leaves the entries of every other key as they were.
C15_LastWriterWins ==
  /\ [](\A p, q \in Procs :
          BothMissed(p, q) =>
            /\ IsValue(ret[p]) /\ IsValue(ret[q])
            /\ IsValue(cache[Key(p)])
            /\ cache[Key(p)] \in {ret[p], ret[q]})
  /\ [][\A p \in Procs :
          Stores(p) =>
            /\ cache'[Key(p)] = ret'[p]
            /\ \A k \in DOMAIN cache :
                 k # Key(p) => (k \in DOMAIN cache' /\ cache'[k] = cache[k])]_vars

\* C15 witness: two invocations missed the cache for the same key, one
\* stored a parsed answer and the other a degraded value, and another key
\* is not in the cache.
C15_Witness ==
  /\ BothMissed(1, 2)
  /\ ret[1] # ret[2]
  /\ ret[2].likelihood = 80
  /\ cache[Key(1)] = ret[1]
  /\ ret[1] = FallbackError


\* ---- the cache over sequential lookups
Degraded == {FallbackRateLimit, FallbackError}

\* C16: over sequential lookups the cache only grows: no step removes or
\* replaces an entry, so a later lookup of a stored key returns that entry
\* without a call, a degraded entry (likelihood 65 or 60) included.
C16_CacheOnlyGrows ==
  /\ [](\A p, q \in Procs :
          Repeats(p, q) =>
            /\ results[q] = <<>>
            /\ ret[q] = cache[Key(p)]
            /\ cache[Key(p)] = ret[p])
  /\ [][\A k \in DOMAIN cache :
          k \in DOMAIN cache' /\ cache'[k] = cache[k]]_vars

\* C16 witness: a lookup ended in the likelihood-60 value, and the next
\* lookup of the key was served that entry without a call.
C16_Witness ==
  /\ Repeats(1, 2)
  /\ ret[1] = FallbackError
  /\ ret[1].likelihood = 60
  /\ results[2] = <<>>
  /\ ret[2] = FallbackError

\* C17: every cache entry and every returned value has a likelihood within
\* [0, 100], whatever the response carried.
C17_LikelihoodInRange ==
  /\ \A k \in DOMAIN cache : cache[k].likelihood >= 0 /\ cache[k].likelihood <= 100
  /\ \A p \in Procs :
       pc[p] = "done" => (ret[p].likelihood >= 0 /\ ret[p].likelihood <= 100)

\* C17 witness: a parsed answer stored with its likelihood cut to an end
\* of the range while the call succeeded.
C17_Witness ==
  /\ pc[1] = "done"
  /\ results[1] = <<"ok">>
  /\ ret[1].likelihood = 0
  /\ ret[1].analogous_country = JStr(TxtSyria)
  /\ cache[Key(1)] = ret[1]

\* C18: one invocation makes at most 5 calls; every call before the last
\* failed with a rate-limit classification, so it calls again only after
\* such a failure and with fewer than 5 attempts made; it stops at the
\* first success, returning and caching the value parsed from it.
C18_AtMostFiveCalls ==
  \A p \in Procs :
    /\ Len(results[p]) <= 5
    /\ AllRate(SubSeq(results[p], 1, Len(results[p]) - 1))
    /\ pc[p] = "attempt" =>
         /\ AllRate(results[p])
         /\ Len(results[p]) = attempt[p]
         /\ attempt[p] < 5
    /\ (results[p] # <<>> /\ Last(results[p]) # "rate") => pc[p] = "done"
    /\ (results[p] # <<>> /\ Last(results[p]) = "ok") =>
         /\ IsValue(ret[p])
         /\ ret[p] \notin Degraded
         /\ Cached(p)

\* C18 witness: two rate-limited calls, then a success whose value was
\* returned and cached.
C18_Witness ==
  /\ pc[1] = "done"
  /\ results[1] = <<"rate", "rate", "ok">>
  /\ ret[1].likelihood = 80
  /\ Cached(1)


\* ---- allocate_and_predict on malformed allocations
\* the raw allocations read by the percent rule: a number as it is, text
\* with its percent sign removed, anything else 0
nPercent ==
  [i \in 1..nCount |-> parse_percent(Get(nRaw[i].allocation_percentage, JNum(0)))]
nPercentSum == IntSum(nPercent, 1, nCount)
nTextAllocation ==
  \E i \in 1..nCount : nRaw[i].allocation_percentage.t = "str"

\* C19 as stated: normalize never fails on a malformed allocation: a
\* number is used as it is, "45%" counts as 45, unparsable text or an
\* absent field as 0, and a solution set is returned.
C19_AllocationByPercentRule ==
  (nOut.status # "none" /\ nCount >= 1) =>
    /\ nOut.status = "returned"
    /\ Len(nOut.proposed_solutions) = nCount
    /\ nPercentSum > 0 =>
         \A i \in 1..nCount :
           nOut.proposed_solutions[i].allocation_percentage =
             RoundHalfEven(100 * 100 * nPercent[i], nPercentSum)

\* ---- the solution list of the report
rNarrative(field) == IF field.t = "missing" THEN JStr(<<>>) ELSE field

\* C20: the solution list of the report is the list the normalizer made
\* from Stage A's proposals and the metrics, whatever Stage B and Stage C
\* answered, and the summary and reasoning are Stage A's.
C20_SolutionsFromNormalizerOnly ==
  rPc = "returned" =>
    /\ rResult.report.proposed_solutions =
         allocate_and_predict(rMetrics, rFirst.fields).proposed_solutions
    /\ rResult.report.proposed_solutions = rBase.proposed_solutions
    /\ rResult.report.summary = rNarrative(rFirst.fields.summary)
    /\ rResult.report.Reasoning =
         (IF rFirst.fields.Reasoning.t # "missing" THEN rFirst.fields.Reasoning
          ELSE rNarrative(rFirst.fields.reasoning))

\* C20 witness: Stage B and Stage C both answered with a solution list of
\* their own, and the report carries the two solutions of the normalizer.
C20_Witness ==
  /\ rPc = "returned"
  /\ rRefined.dict /\ rRefined.fields.proposed_solutions.items # <<>>
  /\ rQuantified.fields.proposed_solutions.items # <<>>
  /\ Len(rResult.report.proposed_solutions) = 2
  /\ rResult.report.proposed_solutions[1].allocation_percentage = 7500
  /\ rResult.report.summary = JStr(TxtSummary)


\* ---- projected_impact_count
nImpactField == [i \in 1..nCount |-> nRaw[i].projected_impact_count]

\* C21 as stated: the projectedImpactCount output for every raw solution is
\* a non-negative integer: a missing, null or zero raw value gives 0 and no
\* output is negative whatever the raw value was.
C21_ImpactCountNonNegative ==
  nReturned =>
    \A i \in 1..nCount :
      /\ nOut.proposed_solutions[i].projected_impact_count \in Int
      /\ nOut.proposed_solutions[i].projected_impact_count >= 0
      /\ (nImpactField[i].t \in {"missing", "null"} \/ nImpactField[i] = JNum(0)) =>
           nOut.proposed_solutions[i].projected_impact_count = 0


====
